---- MODULE Spec2Model ----
(***************************************************************************)
(* cccards.py: DeckBuilder.  Two CSV files of weighted cards are expanded  *)
(* into a front and a back deck, balanced, shuffled, extended with         *)
(* wildcards and laid out in a 4 x 7 grid of cards per PDF page.           *)
(*                                                                         *)
(* A field of a CSV record is a sequence of one-character strings, so that *)
(* int() can be modelled by what it parses.  A record ("row") is the list  *)
(* of fields csv.reader yields for one line.  A card is the text field of  *)
(* its record; the wildcard literal "*" is the one-character text <<"*">>. *)
(***************************************************************************)
EXTENDS Integers, Sequences, FiniteSets, TLC

VARIABLES
    pc,            \* position of the single thread of control
    back_csv,      \* constructor argument: TRUE iff a BACK_CSV was given
    wildcards,     \* constructor argument
    file,          \* load_csv: which file is being read, "front" or "back"
    rows,          \* load_csv: the records csv.reader has yielded so far
    cards,         \* load_csv: the local list `cards`
    front_cards,   \* self.front_cards
    back_cards,    \* self.back_cards
    front_wild,    \* history: front_wild[i] iff front_cards[i] was appended as a wildcard
    back_wild,     \* history: the same for back_cards
    front_loaded,  \* history: the list load_csv returned for the front file
    back_loaded,   \* history: the list load_csv returned for the back file
    page,          \* save: the local `page`
    total_pages,   \* save: the local `total_pages`
    side,          \* save: which list object the local `side` refers to
    out,           \* save: the pages added to the PDF so far
    raised         \* <<function, exception>> that ended the program, or <<>>

vars == <<pc, back_csv, wildcards, file, rows, cards, front_cards, back_cards,
          front_wild, back_wild, front_loaded, back_loaded, page, total_pages,
          side, out, raised>>

----------------------------------------------------------------------------
(* Program constants *)

CARDS_PER_PAGE == 28
CARD_WIDTH == 48
CARD_HEIGHT == 40
\* FPDF() defaults: A4 portrait in millimetres, 10 mm margins
PAGE_WIDTH == 210
L_MARGIN == 10
T_MARGIN == 10

(* Bounds of the model *)

MaxRows == 2     \* records per CSV file
MaxCards == 3    \* cards a CSV file expands to
MaxWild == 2     \* largest --wildcards value
MaxPages == 4    \* pages save may add before the model stops following it

----------------------------------------------------------------------------
(* Inputs *)

WILD == <<"*">>

TextFields == {<<"A">>, <<"*">>}

WeightFields == {<<"0">>, <<"1">>, <<"2">>, <<"0", "2">>, <<"-", "1">>,
                 <<"x">>, <<>>}

\* The records a file may hold: empty lines, one field, two fields, and a
\* three-field record.
Rows ==
    {<<>>}
    \cup {<<t>> : t \in TextFields}
    \cup {<<t, w>> : t \in TextFields, w \in WeightFields}
    \cup {<<t, <<"1">>, <<"x">>>> : t \in {<<"A">>}}

----------------------------------------------------------------------------
(* Python built-ins *)

Digits == {"0", "1", "2", "3", "4", "5", "6", "7", "8", "9"}

DigitValue(c) ==
    CASE c = "0" -> 0 [] c = "1" -> 1 [] c = "2" -> 2 [] c = "3" -> 3
      [] c = "4" -> 4 [] c = "5" -> 5 [] c = "6" -> 6 [] c = "7" -> 7
      [] c = "8" -> 8 [] c = "9" -> 9

RECURSIVE lstrip(_)
lstrip(s) == IF s # <<>> /\ Head(s) = " " THEN lstrip(Tail(s)) ELSE s

RECURSIVE rstrip(_)
rstrip(s) ==
    IF s # <<>> /\ s[Len(s)] = " " THEN rstrip(SubSeq(s, 1, Len(s) - 1)) ELSE s

strip(s) == rstrip(lstrip(s))

\* the digits of a literal after its optional sign
Unsigned(s) ==
    LET t == strip(s)
    IN  IF t # <<>> /\ Head(t) \in {"+", "-"} THEN Tail(t) ELSE t

\* int(s) raises ValueError unless s is [space]* [+-]? digit+ [space]*
IsIntLiteral(s) ==
    /\ Unsigned(s) # <<>>
    /\ \A i \in 1..Len(Unsigned(s)) : Unsigned(s)[i] \in Digits

RECURSIVE Magnitude(_, _)
Magnitude(d, acc) ==
    IF d = <<>> THEN acc ELSE Magnitude(Tail(d), 10 * acc + DigitValue(Head(d)))

int(s) ==
    LET t == strip(s)
        m == Magnitude(Unsigned(s), 0)
    IN  IF Head(t) = "-" THEN 0 - m ELSE m

\* [x] * n: the empty list when n <= 0
Repeat(x, n) == IF n <= 0 THEN <<>> ELSE [i \in 1..n |-> x]

\* math.ceil(n / d) for n >= 0, d > 0
ceil(n, d) == (n + d - 1) \div d

max(a, b) == IF a >= b THEN a ELSE b

\* random.choice(seq): the values it may return; it raises IndexError on []
choice(seq) == {seq[i] : i \in DOMAIN seq}

\* seq[a:b] with 0 <= a <= b
Slice(seq, a, b) ==
    IF a >= Len(seq) THEN <<>> ELSE SubSeq(seq, a + 1, IF b < Len(seq) THEN b ELSE Len(seq))

----------------------------------------------------------------------------
(* __init__ and load_csv *)

Init ==
    /\ pc = "load_csv"
    /\ back_csv \in BOOLEAN
    /\ wildcards \in 0..MaxWild
    /\ file = "front"
    /\ rows = <<>>
    /\ cards = <<>>
    /\ front_cards = <<>>
    /\ back_cards = <<>>
    /\ front_wild = <<>>
    /\ back_wild = <<>>
    /\ front_loaded = <<>>
    /\ back_loaded = <<>>
    /\ page = 0
    /\ total_pages = 0
    /\ side = "front"
    /\ out = <<>>
    /\ raised = <<>>

\* the exception `cards += [row[0]] * int(row[1])` raises on row, or "none":
\* row[0] and row[1] are indexed before int() is called
RowError(row) ==
    IF Len(row) < 2 THEN "IndexError"
    ELSE IF ~IsIntLiteral(row[2]) THEN "ValueError"
    ELSE "none"

\* cards += [row[0]] * int(row[1])
\* (LoadRowOnce: the variant that ignores the weight)
LoadRowOnce(cs, row) == cs \o <<row[1]>>
LoadRow(cs, row) == cs \o Repeat(row[1], int(row[2]))

\* one iteration of `for row in data`
ReadRow ==
    /\ pc = "load_csv"
    /\ Len(rows) < MaxRows
    /\ \E row \in Rows :
        /\ rows' = Append(rows, row)
        /\ IF RowError(row) # "none"
           THEN /\ raised' = <<"load_csv", RowError(row)>>
                /\ pc' = "error"
                /\ cards' = cards
           ELSE /\ cards' = LoadRow(cards, row)
                /\ Len(cards') <= MaxCards
                /\ UNCHANGED <<pc, raised>>
    /\ UNCHANGED <<back_csv, wildcards, file, front_cards, back_cards,
                   front_wild, back_wild, front_loaded, back_loaded, page,
                   total_pages, side, out>>

\* the reader is exhausted: the loop ends and load_csv is about to return
EndOfFile ==
    /\ pc = "load_csv"
    /\ pc' = "load_return"
    /\ UNCHANGED <<back_csv, wildcards, file, rows, cards, front_cards,
                   back_cards, front_wild, back_wild, front_loaded,
                   back_loaded, page, total_pages, side, out, raised>>

\* self.front_cards = self.load_csv(front_csv, delimiter); if back_csv:
ReturnFront ==
    /\ pc = "load_return"
    /\ file = "front"
    /\ front_cards' = cards
    /\ front_loaded' = cards
    /\ front_wild' = Repeat(FALSE, Len(cards))
    /\ rows' = <<>>
    /\ cards' = <<>>
    /\ IF back_csv
       THEN pc' = "load_csv" /\ file' = "back"
       ELSE pc' = "no_back" /\ file' = file
    /\ UNCHANGED <<back_csv, wildcards, back_cards, back_wild, back_loaded,
                   page, total_pages, side, out, raised>>

\* self.back_cards = self.load_csv(back_csv, delimiter)
ReturnBack ==
    /\ pc = "load_return"
    /\ file = "back"
    /\ back_cards' = cards
    /\ back_loaded' = cards
    /\ back_wild' = Repeat(FALSE, Len(cards))
    /\ rows' = <<>>
    /\ cards' = <<>>
    /\ pc' = "balance_back"
    /\ UNCHANGED <<back_csv, wildcards, file, front_cards, front_wild,
                   front_loaded, page, total_pages, side, out, raised>>

----------------------------------------------------------------------------
(* balance *)

\* while len(self.front_cards) > len(self.back_cards):
\* (BackIsShorterAndFilled: the variant that skips an empty back deck)
BackIsShorterAndFilled(front, back) == Len(front) > Len(back) /\ back # <<>>
BackIsShorter(front, back) == Len(front) > Len(back)

\* while len(self.back_cards) > len(self.front_cards):
FrontIsShorter(front, back) == Len(back) > Len(front)

\* random.choice(self.back_cards)
\* (ChoicesOfFront: the variant that draws from the other deck)
ChoicesOfFront(front, back) == choice(front)
BackChoices(front, back) == choice(back)

\* random.choice(self.front_cards)
FrontChoices(front, back) == choice(front)

\* one iteration of the first loop
BalanceBack ==
    /\ pc = "balance_back"
    /\ BackIsShorter(front_cards, back_cards)
    /\ IF back_cards = <<>>
       THEN /\ raised' = <<"balance", "IndexError">>
            /\ pc' = "error"
            /\ UNCHANGED <<back_cards, back_wild>>
       ELSE /\ \E c \in BackChoices(front_cards, back_cards) :
                back_cards' = Append(back_cards, c)
            /\ back_wild' = Append(back_wild, FALSE)
            /\ UNCHANGED <<pc, raised>>
    /\ UNCHANGED <<back_csv, wildcards, file, rows, cards, front_cards,
                   front_wild, front_loaded, back_loaded, page, total_pages,
                   side, out>>

\* the first loop's condition is false
BalanceBackEnd ==
    /\ pc = "balance_back"
    /\ ~BackIsShorter(front_cards, back_cards)
    /\ pc' = "balance_front"
    /\ UNCHANGED <<back_csv, wildcards, file, rows, cards, front_cards,
                   back_cards, front_wild, back_wild, front_loaded,
                   back_loaded, page, total_pages, side, out, raised>>

\* one iteration of the second loop
BalanceFront ==
    /\ pc = "balance_front"
    /\ FrontIsShorter(front_cards, back_cards)
    /\ IF front_cards = <<>>
       THEN /\ raised' = <<"balance", "IndexError">>
            /\ pc' = "error"
            /\ UNCHANGED <<front_cards, front_wild>>
       ELSE /\ \E c \in FrontChoices(front_cards, back_cards) :
                front_cards' = Append(front_cards, c)
            /\ front_wild' = Append(front_wild, FALSE)
            /\ UNCHANGED <<pc, raised>>
    /\ UNCHANGED <<back_csv, wildcards, file, rows, cards, back_cards,
                   back_wild, front_loaded, back_loaded, page, total_pages,
                   side, out>>

\* the second loop's condition is false: balance returns
BalanceFrontEnd ==
    /\ pc = "balance_front"
    /\ ~FrontIsShorter(front_cards, back_cards)
    /\ pc' = "shuffle_front"
    /\ UNCHANGED <<back_csv, wildcards, file, rows, cards, front_cards,
                   back_cards, front_wild, back_wild, front_loaded,
                   back_loaded, page, total_pages, side, out, raised>>

----------------------------------------------------------------------------
(* shuffle *)

\* the list random.shuffle leaves: position i holds what position p[i] held
\* (ShuffledLosing: the variant that overwrites instead of swapping)
ShuffledLosing(deck, p) == [i \in DOMAIN deck |-> deck[p[1]]]
Shuffled(deck, p) == [i \in DOMAIN deck |-> deck[p[i]]]

\* random.shuffle(self.front_cards)
ShuffleFront ==
    /\ pc = "shuffle_front"
    /\ \E p \in Permutations(DOMAIN front_cards) :
        /\ front_cards' = Shuffled(front_cards, p)
        /\ front_wild' = [i \in DOMAIN front_wild |-> front_wild[p[i]]]
    /\ pc' = "shuffle_back"
    /\ UNCHANGED <<back_csv, wildcards, file, rows, cards, back_cards,
                   back_wild, front_loaded, back_loaded, page, total_pages,
                   side, out, raised>>

\* random.shuffle(self.back_cards)
ShuffleBack ==
    /\ pc = "shuffle_back"
    /\ \E p \in Permutations(DOMAIN back_cards) :
        /\ back_cards' = Shuffled(back_cards, p)
        /\ back_wild' = [i \in DOMAIN back_wild |-> back_wild[p[i]]]
    /\ pc' = "append_back"
    /\ UNCHANGED <<back_csv, wildcards, file, rows, cards, front_cards,
                   front_wild, front_loaded, back_loaded, page, total_pages,
                   side, out, raised>>

----------------------------------------------------------------------------
(* the wildcard appends of __init__ *)

\* deck += ["*"] * wildcards
\* (WithWildcardsFirst, WithOneWildcardMore: the variants that prepend, and
\* that append one marker too many)
WithWildcardsFirst(deck, n) == Repeat(WILD, n) \o deck
WithOneWildcardMore(deck, n) == deck \o Repeat(WILD, n + 1)
WithWildcards(deck, n) == deck \o Repeat(WILD, n)

\* self.back_cards += ["*"] * wildcards
AppendBack ==
    /\ pc = "append_back"
    /\ back_cards' = WithWildcards(back_cards, wildcards)
    /\ back_wild' = back_wild \o Repeat(TRUE, Len(back_cards') - Len(back_cards))
    /\ pc' = "append_front"
    /\ UNCHANGED <<back_csv, wildcards, file, rows, cards, front_cards,
                   front_wild, front_loaded, back_loaded, page, total_pages,
                   side, out, raised>>

\* else: self.back_cards = []
NoBack ==
    /\ pc = "no_back"
    /\ back_cards' = <<>>
    /\ back_wild' = <<>>
    /\ pc' = "append_front"
    /\ UNCHANGED <<back_csv, wildcards, file, rows, cards, front_cards,
                   front_wild, front_loaded, back_loaded, page, total_pages,
                   side, out, raised>>

\* self.front_cards += ["*"] * wildcards
AppendFront ==
    /\ pc = "append_front"
    /\ front_cards' = WithWildcards(front_cards, wildcards)
    /\ front_wild' = front_wild \o Repeat(TRUE, Len(front_cards') - Len(front_cards))
    /\ pc' = "constructed"
    /\ UNCHANGED <<back_csv, wildcards, file, rows, cards, back_cards,
                   back_wild, front_loaded, back_loaded, page, total_pages,
                   side, out, raised>>

----------------------------------------------------------------------------
(* save *)

\* math.ceil(max(len(front) / CARDS_PER_PAGE, len(back) / CARDS_PER_PAGE))
TotalPages(front, back) == ceil(max(Len(front), Len(back)), CARDS_PER_PAGE)

\* the list the local `side` refers to
SideCards == IF side = "front" THEN front_cards ELSE back_cards
SideWild == IF side = "front" THEN front_wild ELSE back_wild

\* if card == '*': size=32 else: size=14
FontSize(card) == IF card = WILD THEN 32 ELSE 14

\* if side == self.back_cards: the lists are compared by value
Mirrored(s, back) == s = back

\* FPDF.set_x: a negative abscissa counts from the right edge of the page
set_x(x) == IF x >= 0 THEN x ELSE PAGE_WIDTH + x

\* the body of `for card in side[...]`, for each card of the slice in turn;
\* x, y is the position FPDF has reached; every cell drawn is recorded
RECURSIVE RenderCards(_, _, _, _, _, _, _)
RenderCards(slice, wild, mirrored, cell, card_in_row, x, y) ==
    IF slice = <<>> THEN <<>>
    ELSE LET card == Head(slice)
             at == IF mirrored THEN set_x(0 - CARD_WIDTH * card_in_row - 9) ELSE x
             drawn == [text |-> card, size |-> FontSize(card), x |-> at,
                       y |-> y, wild |-> Head(wild)]
             wrap == (cell + 1) % 4 = 0
         IN  <<drawn>> \o
             RenderCards(Tail(slice), Tail(wild), mirrored, cell + 1,
                         IF wrap THEN 1 ELSE card_in_row + 1,
                         IF wrap THEN L_MARGIN ELSE at + CARD_WIDTH,
                         IF wrap THEN y + CARD_HEIGHT ELSE y)

\* if self.back_cards and side == self.front_cards: compared by value
TurnToBack(s, front, back) == back # <<>> /\ s = front

\* pdf = FPDF(); page = 0; total_pages = ...; side = self.front_cards
SaveBegin ==
    /\ pc = "constructed"
    /\ page' = 0
    /\ total_pages' = TotalPages(front_cards, back_cards)
    /\ side' = "front"
    /\ pc' = "save_loop"
    /\ UNCHANGED <<back_csv, wildcards, file, rows, cards, front_cards,
                   back_cards, front_wild, back_wild, front_loaded,
                   back_loaded, out, raised>>

\* one iteration of `while page < total_pages`
SavePage ==
    /\ pc = "save_loop"
    /\ page < total_pages
    /\ Len(out) < MaxPages
    /\ out' = Append(out,
                [side |-> side, page |-> page,
                 cells |-> RenderCards(
                     Slice(SideCards, page * CARDS_PER_PAGE, (page + 1) * CARDS_PER_PAGE),
                     Slice(SideWild, page * CARDS_PER_PAGE, (page + 1) * CARDS_PER_PAGE),
                     Mirrored(SideCards, back_cards), 0, 1,
                     L_MARGIN, T_MARGIN + 10)])
    /\ IF TurnToBack(SideCards, front_cards, back_cards)
       THEN side' = "back" /\ page' = page
       ELSE side' = "front" /\ page' = page + 1
    /\ UNCHANGED <<pc, back_csv, wildcards, file, rows, cards, front_cards,
                   back_cards, front_wild, back_wild, front_loaded,
                   back_loaded, total_pages, raised>>

\* the loop ends: pdf.output(filename)
SaveOutput ==
    /\ pc = "save_loop"
    /\ ~(page < total_pages)
    /\ pc' = "done"
    /\ UNCHANGED <<back_csv, wildcards, file, rows, cards, front_cards,
                   back_cards, front_wild, back_wild, front_loaded,
                   back_loaded, page, total_pages, side, out, raised>>

----------------------------------------------------------------------------

Next ==
    \/ ReadRow
    \/ EndOfFile
    \/ ReturnFront
    \/ ReturnBack
    \/ BalanceBack
    \/ BalanceBackEnd
    \/ BalanceFront
    \/ BalanceFrontEnd
    \/ ShuffleFront
    \/ ShuffleBack
    \/ AppendBack
    \/ NoBack
    \/ AppendFront
    \/ SaveBegin
    \/ SavePage
    \/ SaveOutput

Spec == Init /\ [][Next]_vars

\* the program is one thread that runs until it ends or raises
FairSpec == Spec /\ WF_vars(Next)

----------------------------------------------------------------------------
(* Vocabulary of the properties *)

\* __init__ has returned
Constructed == pc \in {"constructed", "save_loop", "done"}

\* balance has returned
Balanced == pc \in {"shuffle_front", "shuffle_back", "append_back", "append_front"}
            \/ Constructed

IsPrefix(a, b) == Len(a) <= Len(b) /\ SubSeq(b, 1, Len(a)) = a

\* the multiset of the entries of a deck
Bag(deck) == [c \in choice(deck) |-> Cardinality({i \in DOMAIN deck : deck[i] = c})]

\* a non-negative integer written in decimal digits
IsNatural(field) == field # <<>> /\ \A i \in DOMAIN field : field[i] \in Digits

RECURSIVE Decimal(_)
Decimal(field) ==
    IF field = <<>> THEN 0
    ELSE 10 * Decimal(SubSeq(field, 1, Len(field) - 1)) + DigitValue(field[Len(field)])

\* a record of the documented format: card text, weight
ValidRecord(row) == Len(row) = 2 /\ IsNatural(row[2])

RECURSIVE Expansion(_)
Expansion(rs) ==
    IF rs = <<>> THEN <<>>
    ELSE LET text == Head(rs)[1]
             weight == Decimal(Head(rs)[2])
         IN  [i \in 1..weight |-> text] \o Expansion(Tail(rs))

RECURSIVE SumOfWeights(_)
SumOfWeights(rs) ==
    IF rs = <<>> THEN 0 ELSE Decimal(Head(rs)[2]) + SumOfWeights(Tail(rs))

\* the <<side, page>> of every page added to the PDF, in order
Emitted == [k \in DOMAIN out |-> <<out[k].side, out[k].page>>]

\* the order of pages the layout calls for
ExpectedPages ==
    LET P == ceil(max(Len(front_cards), Len(back_cards)), CARDS_PER_PAGE)
    IN  IF back_cards # <<>>
        THEN [k \in 1..(2 * P) |-> <<IF k % 2 = 1 THEN "front" ELSE "back", (k - 1) \div 2>>]
        ELSE [k \in 1..P |-> <<"front", k - 1>>]

\* exactly one of the two loaded decks is empty
OneDeckEmpty == (front_loaded = <<>>) # (back_loaded = <<>>)

BothNonEmpty == front_loaded # <<>> /\ back_loaded # <<>>

LongestLoaded == max(Len(front_loaded), Len(back_loaded))

\* the deck is n loaded or duplicated cards followed by `wildcards` wildcards
WildcardsAtEnd(deck, wild, n) ==
    /\ Len(deck) = n + wildcards
    /\ wild = [i \in 1..(n + wildcards) |-> i > n]
    /\ \A i \in (n + 1)..(n + wildcards) : deck[i] = WILD

----------------------------------------------------------------------------
(* Properties *)

\* C1: save emits front page 0, back page 0, front page 1, ... (front pages
\* only when the back deck is empty), each page once, and then terminates:
\* what has been emitted is always a prefix of that order, and all of it once
\* save is done.
C1_PagesInOrder ==
    pc \in {"save_loop", "done"} =>
        /\ IsPrefix(Emitted, ExpectedPages)
        /\ pc = "done" => Emitted = ExpectedPages

\* C2: with a back CSV the decks have equal length before the wildcard
\* appends, and after construction both decks end in the same `wildcards`
\* wildcard markers at the same indices, with equal lengths.
C2_WildcardsAligned ==
    /\ (back_csv /\ pc = "append_back") => Len(front_cards) = Len(back_cards)
    /\ (back_csv /\ Constructed) =>
        /\ Len(front_cards) = Len(back_cards)
        /\ \E n \in 0..Len(front_cards) :
            /\ WildcardsAtEnd(front_cards, front_wild, n)
            /\ WildcardsAtEnd(back_cards, back_wild, n)

C2_Witness ==
    /\ back_csv
    /\ pc = "constructed"
    /\ wildcards = 2
    /\ Len(front_cards) > wildcards
    /\ Len(front_loaded) # Len(back_loaded)

\* C3: the card at deck index i is drawn in row (i mod 28) div 4 of page
\* i div 28; a front card in column i mod 4 from the left, a back card in
\* column 3 - (i mod 4): a card is mirrored iff it is drawn from the back deck.
C3_MirroredIffBack ==
    \A k \in DOMAIN out : \A j \in DOMAIN out[k].cells :
        LET i == out[k].page * CARDS_PER_PAGE + (j - 1)
            c == out[k].cells[j]
        IN  /\ c.y \div CARD_HEIGHT = (i % CARDS_PER_PAGE) \div 4
            /\ c.x \div CARD_WIDTH =
                 IF out[k].side = "front" THEN i % 4 ELSE 3 - (i % 4)

\* C4: for a file of valid records load_csv returns each record's text
\* repeated weight times, in record order; the length is the sum of weights.
C4_LoadExpandsWeights ==
    (pc = "load_return" /\ \A i \in DOMAIN rows : ValidRecord(rows[i])) =>
        /\ cards = Expansion(rows)
        /\ Len(cards) = SumOfWeights(rows)

C4_Witness ==
    /\ pc = "load_return"
    /\ Len(rows) = 2
    /\ \A i \in DOMAIN rows : ValidRecord(rows[i])
    /\ rows[1][1] # rows[2][1]
    /\ rows[1][2] = <<"2">>
    /\ Len(cards) = 3

\* C5: with exactly one loaded deck empty, balance raises before any card is
\* appended and never returns, and nothing is rendered; balance raises in no
\* other case, so with both decks empty it returns normally.
C5_EmptyDeckRaises ==
    /\ (pc \in {"balance_back", "balance_front"} /\ OneDeckEmpty) =>
        front_cards = front_loaded /\ back_cards = back_loaded
    /\ (back_csv /\ Balanced) => ~OneDeckEmpty
    /\ raised = <<"balance", "IndexError">> =>
        /\ OneDeckEmpty
        /\ pc = "error"
        /\ front_cards = front_loaded /\ back_cards = back_loaded
        /\ out = <<>>

C5_Witness ==
    /\ raised = <<"balance", "IndexError">>
    /\ front_loaded = <<>>
    /\ back_loaded # <<>>

\* C6: a cell is drawn in the wildcard font (size 32) iff its entry is one of
\* the markers appended by the wildcard appender; every entry that came from
\* an input record is drawn in the standard font.
C6_WildcardFontIffAppended ==
    \A k \in DOMAIN out : \A j \in DOMAIN out[k].cells :
        (out[k].cells[j].size = 32) <=> out[k].cells[j].wild

\* C7: load_csv fails whenever a record it has read is malformed: a field
\* count other than two, or a weight that is not a non-negative integer.
C7_MalformedRecordFails ==
    (\E i \in DOMAIN rows : ~ValidRecord(rows[i])) => pc = "error"

\* C8: without a back CSV there is no balancing and no shuffling; the front
\* deck is the loaded deck followed by `wildcards` wildcards and the back
\* deck is empty.
C8_SingleSided ==
    ~back_csv =>
        /\ pc \notin {"balance_back", "balance_front", "shuffle_front", "shuffle_back"}
        /\ Constructed =>
            /\ front_cards = front_loaded \o [i \in 1..wildcards |-> WILD]
            /\ front_wild = [i \in 1..Len(front_cards) |-> i > Len(front_loaded)]
            /\ back_cards = <<>>

C8_Witness ==
    /\ ~back_csv
    /\ pc = "constructed"
    /\ wildcards = 2
    /\ Len(front_loaded) >= 2
    /\ front_loaded[1] # front_loaded[2]

\* what holds of two non-empty loaded decks while balance runs and when it
\* has returned
BalanceFrame ==
    (back_csv /\ BothNonEmpty /\ pc \in {"balance_back", "balance_front", "shuffle_front"}) =>
        /\ raised = <<>>
        /\ Len(front_cards) <= LongestLoaded /\ Len(back_cards) <= LongestLoaded
        /\ IsPrefix(front_loaded, front_cards)
        /\ IsPrefix(back_loaded, back_cards)
        /\ \A i \in DOMAIN front_cards : front_cards[i] \in choice(front_loaded)
        /\ \A i \in DOMAIN back_cards : back_cards[i] \in choice(back_loaded)
        /\ pc = "shuffle_front" =>
            Len(front_cards) = LongestLoaded /\ Len(back_cards) = LongestLoaded

\* C9: for two non-empty decks balance terminates, with both lengths the
\* longer loaded length; each deck keeps its loaded entries as a prefix (so
\* the longer deck is unchanged) and every entry of a deck is an entry of that
\* deck as loaded (none is taken from the other deck).
C9_BalanceTerminates ==
    /\ []BalanceFrame
    /\ (pc = "balance_back" /\ BothNonEmpty) ~> (pc = "shuffle_front")

C9_Witness ==
    /\ pc = "shuffle_front"
    /\ BothNonEmpty
    /\ Len(front_loaded) >= Len(back_loaded) + 2
    /\ front_loaded[1] # back_loaded[1]

\* C10: each shuffle keeps the multiset and the length of its deck and leaves
\* the other deck alone, so the decks are still of equal length afterwards;
\* the wildcards appended later stay at the end of each deck.
C10_ShufflePermutes ==
    /\ [][pc = "shuffle_front" =>
            /\ Bag(front_cards') = Bag(front_cards)
            /\ Len(front_cards') = Len(front_cards)
            /\ back_cards' = back_cards]_vars
    /\ [][pc = "shuffle_back" =>
            /\ Bag(back_cards') = Bag(back_cards)
            /\ Len(back_cards') = Len(back_cards)
            /\ front_cards' = front_cards]_vars
    /\ [](pc \in {"shuffle_back", "append_back"} => Len(front_cards) = Len(back_cards))
    /\ [](back_csv /\ Constructed =>
            /\ \A i \in DOMAIN front_wild : front_wild[i] <=> i > Len(front_cards) - wildcards
            /\ \A i \in DOMAIN back_wild : back_wild[i] <=> i > Len(back_cards) - wildcards)

C10_Witness ==
    /\ pc = "constructed"
    /\ back_csv
    /\ wildcards > 0
    /\ ~IsPrefix(front_loaded, front_cards)
    /\ ~IsPrefix(back_loaded, back_cards)

====
